---- MODULE Spec2Model ----
(***************************************************************************)
(* Model of mutation_simulator/util.py: sample_with_minimum_distance and   *)
(* pairwise.  One behaviour is one call of one of the two functions; the   *)
(* arguments are chosen in Init, the random draws of random.sample are     *)
(* chosen by SampleDraw.                                                   *)
(***************************************************************************)
EXTENDS Integers, Sequences, FiniteSets

VARIABLES op, pc, n, k, d, sampl, indices, out, err, draws,
          iterable, a, b, pairs

vars == <<op, pc, n, k, d, sampl, indices, out, err, draws,
          iterable, a, b, pairs>>

sampleVars == <<n, k, d, sampl, indices, out, err, draws>>
pairVars == <<iterable, a, b, pairs>>

\* ---- bounds of the model ----
MaxN == 8
MaxK == 3
MaxD == 2
NegBound == 2
MaxLen == 3
MaxVal == 2

\* ---- helpers for Python built-ins ----
Min(x, y) == IF x <= y THEN x ELSE y

Max(x, y) == IF x >= y THEN x ELSE y

SeqRange(s) == {s[i] : i \in 1..Len(s)}

\* len(range(start, stop))
RangeLen(start, stop) == IF stop > start THEN stop - start ELSE 0

\* list(range(L)) : the 0-based positions 0, 1, ..., L-1
RangeSeq(L) == [i \in 1..L |-> i - 1]

\* sorted(xs, key=...): ascending, stable; ks[i] is the key of xs[i]
SortedByKey(xs, ks) ==
    LET L == Len(xs)
        before(j, i) == ks[j] < ks[i] \/ (ks[j] = ks[i] /\ j < i)
        pos(i) == 1 + Cardinality({j \in 1..L : before(j, i)})
    IN  [p \in 1..L |-> xs[CHOOSE i \in 1..L : pos(i) = p]]

\* sorted(xs)
Sorted(xs) == SortedByKey(xs, xs)

\* list(zip(xs, ys)) for two finite lists
Zip(xs, ys) == [i \in 1..Min(Len(xs), Len(ys)) |-> <<xs[i], ys[i]>>]

\* pairwise(s) consumed to a list: zip(a, b) after one next(b, None)
PairwiseList(s) == Zip(s, IF s = <<>> THEN s ELSE Tail(s))

\* ---- sample_with_minimum_distance ----

\* the stop of range(1, n - (k - 1) * d)
CompressedStop(nn, kk, dd) == nn - (kk - 1) * dd

PopulationOneToStop(nn, kk, dd) == 1..CompressedStop(nn, kk, dd)

\* the values of range(1, n - (k - 1) * d)
Population(nn, kk, dd) == 1..(CompressedStop(nn, kk, dd) - 1)

SampleRejectsOffByOne(len, kk) == ~(0 <= kk /\ kk < len)

\* random.sample: "if not 0 <= k <= n: raise ValueError"
SampleRejects(len, kk) == ~(0 <= kk /\ kk <= len)

DrawChoicesWithReplacement(pop, drawn) == pop

\* random.sample draws without replacement
DrawChoices(pop, drawn) == pop \ SeqRange(drawn)

IndicesDescending(s) ==
    SortedByKey(RangeSeq(Len(s)), [p \in 1..Len(s) |-> 0 - s[RangeSeq(Len(s))[p] + 1]])

\* sorted(range(len(sampl)), key=lambda i: sampl[i])
Indices(s) ==
    SortedByKey(RangeSeq(Len(s)), [p \in 1..Len(s) |-> s[RangeSeq(Len(s))[p] + 1]])

RanksArgsort(ind) == ind

\* sorted(indices, key=lambda i: indices[i])
Ranks(ind) == SortedByKey(ind, [p \in 1..Len(ind) |-> ind[ind[p] + 1]])

ExpandValueOneBasedRank(s, r, dd) == s + dd * (r + 1)

\* s + d * r
ExpandValue(s, r, dd) == s + dd * r

\* [s + d * r for s, r in zip(sampl, sorted(indices, ...))]
Expand(s, ind, dd) ==
    LET z == Zip(s, Ranks(ind))
    IN  [i \in 1..Len(z) |-> ExpandValue(z[i][1], z[i][2], dd)]

SampleCheckAfterFirstDraw ==
    /\ op = "sample" /\ pc = "call"
    /\ LET len == RangeLen(1, CompressedStop(n, k, d))
       IN  IF SampleRejects(len, k)
           THEN /\ err' = "ValueError"
                /\ pc' = "raised"
                /\ draws' = draws + 1
                /\ sampl' = <<1>>
           ELSE /\ pc' = "drawing"
                /\ UNCHANGED <<err, draws, sampl>>
    /\ UNCHANGED <<op, n, k, d, indices, out>>
    /\ UNCHANGED pairVars

\* line 102, entry of random.sample: the argument check precedes every draw
SampleCheck ==
    /\ op = "sample" /\ pc = "call"
    /\ LET len == RangeLen(1, CompressedStop(n, k, d))
       IN  IF SampleRejects(len, k)
           THEN /\ err' = "ValueError"
                /\ pc' = "raised"
           ELSE /\ err' = err
                /\ pc' = "drawing"
    /\ UNCHANGED <<op, n, k, d, sampl, indices, out, draws>>
    /\ UNCHANGED pairVars

\* line 102, one random selection of random.sample
SampleDraw ==
    /\ op = "sample" /\ pc = "drawing"
    /\ Len(sampl) < k
    /\ \E v \in DrawChoices(Population(n, k, d), sampl) :
          sampl' = Append(sampl, v)
    /\ draws' = draws + 1
    /\ UNCHANGED <<op, pc, n, k, d, indices, out, err>>
    /\ UNCHANGED pairVars

\* line 103
SortIndices ==
    /\ op = "sample" /\ pc = "drawing"
    /\ Len(sampl) = k
    /\ indices' = Indices(sampl)
    /\ pc' = "sorted"
    /\ UNCHANGED <<op, n, k, d, sampl, out, err, draws>>
    /\ UNCHANGED pairVars

\* lines 104-107
ExpandReturn ==
    /\ op = "sample" /\ pc = "sorted"
    /\ out' = Expand(sampl, indices, d)
    /\ pc' = "returned"
    /\ UNCHANGED <<op, n, k, d, sampl, indices, err, draws>>
    /\ UNCHANGED pairVars

\* ---- pairwise ----

PwNextNoAdvance ==
    /\ op = "pairwise" /\ pc = "pw_next"
    /\ pc' = "pw_zip"
    /\ UNCHANGED <<op, iterable, a, b, pairs>>
    /\ UNCHANGED sampleVars

\* line 115: a, b = tee(iterable)
PwTee ==
    /\ op = "pairwise" /\ pc = "pw_call"
    /\ a' = iterable
    /\ b' = iterable
    /\ pc' = "pw_next"
    /\ UNCHANGED <<op, iterable, pairs>>
    /\ UNCHANGED sampleVars

\* line 116: next(b, None) -- the default swallows exhaustion
PwNext ==
    /\ op = "pairwise" /\ pc = "pw_next"
    /\ b' = IF b = <<>> THEN b ELSE Tail(b)
    /\ pc' = "pw_zip"
    /\ UNCHANGED <<op, iterable, a, pairs>>
    /\ UNCHANGED sampleVars

\* line 117: one pull on zip(a, b): a is asked first, then b
PwZipStep ==
    /\ op = "pairwise" /\ pc = "pw_zip"
    /\ IF a = <<>>
       THEN /\ pc' = "pw_done"
            /\ UNCHANGED <<a, b, pairs>>
       ELSE IF b = <<>>
            THEN /\ a' = Tail(a)
                 /\ pc' = "pw_done"
                 /\ UNCHANGED <<b, pairs>>
            ELSE /\ pairs' = Append(pairs, <<Head(a), Head(b)>>)
                 /\ a' = Tail(a)
                 /\ b' = Tail(b)
                 /\ pc' = pc
    /\ UNCHANGED <<op, iterable>>
    /\ UNCHANGED sampleVars

\* ---- the state machine ----

SeqsUpTo(S, L) == UNION {[1..m -> S] : m \in 0..L}

Init ==
    /\ op \in {"sample", "pairwise"}
    /\ IF op = "sample"
       THEN /\ pc = "call"
            /\ n \in (0 - NegBound)..MaxN
            /\ k \in (0 - NegBound)..MaxK
            /\ d \in (0 - NegBound)..MaxD
            /\ iterable = <<>>
       ELSE /\ pc = "pw_call"
            /\ n = 1 /\ k = 0 /\ d = 0
            /\ iterable \in SeqsUpTo(0..MaxVal, MaxLen)
    /\ sampl = <<>>
    /\ indices = <<>>
    /\ out = <<>>
    /\ err = "none"
    /\ draws = 0
    /\ a = <<>>
    /\ b = <<>>
    /\ pairs = <<>>

Next ==
    \/ SampleCheck
    \/ SampleDraw
    \/ SortIndices
    \/ ExpandReturn
    \/ PwTee
    \/ PwNext
    \/ PwZipStep

Spec == Init /\ [][Next]_vars

\* ---- vocabulary of the properties ----

\* the spec's valid call: n > 0, k >= 0, d >= 0, n - (k-1)*d >= k + 1
Valid == n > 0 /\ k >= 0 /\ d >= 0 /\ CompressedStop(n, k, d) >= k + 1

Returned == op = "sample" /\ pc = "returned"

Raised == op = "sample" /\ pc = "raised"

Terminated == Returned \/ Raised

\* every adjacent pair of the ascending-sorted list differs by at least g
MinGap(s, g) == \A p \in SeqRange(PairwiseList(Sorted(s))) : p[2] - p[1] >= g

\* 0-based ascending rank of position i among the values of s
RankOf(s, i) == Cardinality({j \in 1..Len(s) : s[j] < s[i]})

KSubsets(S, kk) == {T \in SUBSET S : Cardinality(T) = kk}

\* the elements of a set of integers in ascending order
AscendingSeq(S) ==
    [i \in 1..Cardinality(S) |->
        CHOOSE x \in S : Cardinality({y \in S : y < x}) = i - 1]

\* the output set the code produces when it draws the subset S
ExpandSet(S, dd) ==
    LET q == AscendingSeq(S) IN SeqRange(Expand(q, Indices(q), dd))

\* the k-subsets of [1, nn) whose ascending neighbours differ by at least g
SpacedSubsets(nn, kk, g) ==
    {T \in KSubsets(1..(nn - 1), kk) : \A x, y \in T : x < y => y - x >= g}

ExpansionImage == {ExpandSet(S, d) : S \in KSubsets(Population(n, k, d), k)}

ExpansionInjective ==
    \A S1, S2 \in KSubsets(Population(n, k, d), k) :
        ExpandSet(S1, d) = ExpandSet(S2, d) => S1 = S2

\* ---- properties ----

\* C1: a valid call's result, sorted ascending, has every adjacent pair
\* at least d apart, whatever was drawn.
C1_Spacing == (Returned /\ Valid) => MinGap(out, d)

C1_Witness ==
    /\ Returned /\ Valid /\ k = 3 /\ d >= 1
    /\ out # Sorted(out)
    /\ \E p \in SeqRange(PairwiseList(Sorted(out))) : p[2] - p[1] > d + 1

\* C2: a valid call never raises, never runs out of values to draw, and
\* returns exactly k pairwise distinct integers.
C2_CountDistinct ==
    (op = "sample" /\ Valid) =>
        /\ ~Raised
        /\ err = "none"
        /\ (pc = "drawing" /\ Len(sampl) < k) =>
               DrawChoices(Population(n, k, d), sampl) # {}
        /\ Returned => (Len(out) = k /\ Cardinality(SeqRange(out)) = k)

C2_Witness ==
    /\ Returned /\ Valid /\ k = 3 /\ d = 1
    /\ CompressedStop(n, k, d) = k + 1

\* C3: every value a valid call returns lies in 1..n-1 (never 0, never n).
C3_InRange == (Returned /\ Valid) => \A v \in SeqRange(out) : 1 <= v /\ v <= n - 1

C3_Witness ==
    /\ Returned /\ Valid /\ k >= 2 /\ d >= 1
    /\ 1 \in SeqRange(out)
    /\ (n - 1) \in SeqRange(out)

\* C4 (as stated): whenever n - (k-1)*d <= k the call raises, for all
\* integers n, k, d, k = 0 included.
C4_RejectsAsClaimed ==
    (Terminated /\ CompressedStop(n, k, d) <= k) => Raised

\* C5 (as stated): the call raises whenever k < 0 or d < 0 or n <= 0 and
\* never returns a list for such parameters.
C5_RejectsBadSigns ==
    (Terminated /\ (k < 0 \/ d < 0 \/ n <= 0)) => Raised

\* the draw 1, 2, ..., k: one returned state per (n, k, d), at which the
\* parts of C6 that depend on the arguments alone are evaluated
FirstDraw == sampl = [i \in 1..k |-> i]

\* C6 (as stated): the expansion maps the k-subsets of the compressed range
\* one-to-one onto ALL k-subsets of [1, n) with neighbours at least d apart.
C6_OntoGapD ==
    (Returned /\ Valid) =>
        /\ SeqRange(out) = ExpandSet(SeqRange(sampl), d)
        /\ FirstDraw =>
               /\ ExpansionInjective
               /\ ExpansionImage = SpacedSubsets(n, k, d)

\* C6 (amended): the expansion maps the k-subsets of the compressed range
\* one-to-one onto all k-subsets of [1, n) with neighbours at least d + 1
\* apart; the returned set is the image of the drawn set, whatever the
\* order of the draw.
C6_OntoGapDPlusOne ==
    (Returned /\ Valid) =>
        /\ SeqRange(out) = ExpandSet(SeqRange(sampl), d)
        /\ SeqRange(out) \in SpacedSubsets(n, k, d + 1)
        /\ FirstDraw =>
               /\ ExpansionInjective
               /\ ExpansionImage = SpacedSubsets(n, k, d + 1)

C6_Witness ==
    /\ Returned /\ Valid /\ k = 2 /\ d = 2
    /\ FirstDraw
    /\ SpacedSubsets(n, k, d) # SpacedSubsets(n, k, d + 1)
    /\ Cardinality(ExpansionImage) > 1

\* C7: a call that raises has drawn nothing and produced nothing; the error
\* arises only at the argument check, and a call that returns hands back a
\* list of exactly k elements, never a shorter one.
C7_NoPartialResult ==
    /\ Raised => (draws = 0 /\ sampl = <<>> /\ out = <<>>)
    /\ (op = "sample" /\ err # "none") => Raised
    /\ Returned => (Len(out) = k /\ draws = k)

C7_Witness ==
    /\ Raised /\ err = "ValueError"
    /\ n = 5 /\ k = 3 /\ d = 2

\* C8: pairwise over a list of length L yields max(L-1, 0) pairs, the i-th
\* being (s[i], s[i+1]); for L <= 1 it yields nothing and does not fail.
C8_Pairwise ==
    (op = "pairwise" /\ pc = "pw_done") =>
        /\ Len(pairs) = Max(Len(iterable) - 1, 0)
        /\ \A i \in 1..(Len(iterable) - 1) :
               pairs[i] = <<iterable[i], iterable[i + 1]>>
        /\ pairs = PairwiseList(iterable)

C8_Witness ==
    /\ op = "pairwise" /\ pc = "pw_done"
    /\ Len(iterable) = 3
    /\ iterable[1] # iterable[2] /\ iterable[2] # iterable[3]
    /\ Len(pairs) = 2

\* C9: output[i] = raw[i] + d * (ascending 0-based rank of raw[i]) at every
\* position, and for d >= 0 the output keeps the relative order of the draw.
C9_RankExpansion ==
    Returned =>
        /\ Len(out) = Len(sampl)
        /\ \A i \in 1..Len(sampl) : out[i] = sampl[i] + d * RankOf(sampl, i)
        /\ d >= 0 =>
               \A i, j \in 1..Len(sampl) : (out[i] < out[j]) <=> (sampl[i] < sampl[j])

C9_Witness ==
    /\ Returned /\ Valid /\ k = 3 /\ d >= 1
    /\ sampl[2] > sampl[1] /\ sampl[1] > sampl[3]
    /\ Ranks(indices) # indices

\* C10: a call with d >= 0 and k >= 2 that returns has every adjacent pair
\* of its sorted result at least d + 1 apart; no two values are d apart.
C10_StrictGap ==
    (Returned /\ d >= 0 /\ k >= 2) =>
        /\ MinGap(out, d + 1)
        /\ \A i, j \in 1..Len(out) : i # j => out[i] - out[j] # d

C10_Witness ==
    /\ Returned /\ d >= 1 /\ k >= 2
    /\ \E p \in SeqRange(PairwiseList(Sorted(out))) : p[2] - p[1] = d + 1

====
